---- MODULE Spec2Model ----
(***************************************************************************)
(* State-machine model of scripts/common/rest_api_helpers.py:              *)
(* query_api, download_file, CircleCI.paginated_query_api_iterator,        *)
(* CircleCI.paginated_query_api and CircleCI.latest_item.                  *)
(*                                                                         *)
(* The HTTP transport and the filesystem are the environment.  Every       *)
(* request and response, and every line printed in debug mode, is appended *)
(* to one ordered log, so that ordering and counting statements are        *)
(* statements about the log.                                               *)
(***************************************************************************)
EXTENDS Integers, Sequences, FiniteSets, TLC

VARIABLES
    pc,               \* position of the running call
    op,               \* the top-level operation that was called
    caller,           \* who query_api returns to: "top" or "iterator"
    url,              \* url argument of the running call
    debug_requests,   \* debug flag (argument of query_api, field of the client)
    heap,             \* the dict objects alive during the call, by reference
    params,           \* the local name `params`: a reference into heap
    base,             \* value the caller's mapping had when the call was made
    max_pages,        \* max_pages argument
    page_count,       \* iterator local
    next_page_token,  \* iterator local
    response,         \* iterator local: the value query_api returned
    acc,              \* accumulator of functools.reduce
    fs,               \* filesystem: path -> content
    target_path,      \* download_file argument
    overwrite,        \* download_file argument
    items,            \* latest_item argument
    log,              \* ordered record of prints, GET requests and responses
    outcome           \* how the top-level call ended

vars == <<pc, op, caller, url, debug_requests, heap, params, base, max_pages,
          page_count, next_page_token, response, acc, fs, target_path,
          overwrite, items, log, outcome>>

(***************************************************************************)
(* Bounds of the exploration.                                              *)
(***************************************************************************)
\* GET requests explored in one pagination run
MaxRequests == 3
\* longest list handed to latest_item
MaxListLen == 3

(***************************************************************************)
(* Values.                                                                 *)
(***************************************************************************)
\* Python's None where a string is expected (a continuation token)
None == "None"
\* Python's None as a value (and the decoding of the JSON text `null`)
PyNone == [type |-> "null"]

PAGE_TOKEN == "page-token"
DEFAULT_MAX_PAGES == 10

Urls == {"u1", "u2"}
Paths == {"p1", "p2"}
Tokens == {"A", "B"}

\* max_pages: None, or an integer
NoLimit == [isNone |-> TRUE, n |-> 0]
Limit(n) == [isNone |-> FALSE, n |-> n]
MaxPagesArgs == {NoLimit, Limit(DEFAULT_MAX_PAGES)} \cup {Limit(n) : n \in 0..MaxRequests}

\* dicts of str -> str are functions on a finite set of keys
EmptyDict == [k \in {} |-> ""]
ParamsArgs == {EmptyDict,
               ("branch" :> "develop"),
               (PAGE_TOKEN :> "A"),
               ("branch" :> "develop") @@ (PAGE_TOKEN :> "B")}

\* response bodies, as bytes: a JSON object with items and next_page_token,
\* the JSON text null, or bytes that are not JSON
ItemLists == {<<>>, <<1>>, <<1, 2>>, <<2, 1>>}
ObjectBody(its, token) == [tag |-> "object", items |-> its, next_page_token |-> token]
NullBody == [tag |-> "null", items |-> <<>>, next_page_token |-> None]
GarbageBody == [tag |-> "garbage", items |-> <<>>, next_page_token |-> None]
PageBodies == {ObjectBody(i, t) : i \in ItemLists, t \in Tokens \cup {None}}

\* status 0 stands for "requests.get raised ConnectionError": no response
NoResponse == [status |-> 0, body |-> GarbageBody]
Statuses == {101, 200, 304, 404, 503}
Responses ==
    {[status |-> 200, body |-> b] : b \in PageBodies \cup {NullBody, GarbageBody}}
    \cup {[status |-> s, body |-> b] : s \in Statuses \ {200},
                                       b \in {ObjectBody(<<1>>, None), GarbageBody}}
NetworkOutcomes == Responses \cup {NoResponse}

Return(v) == [kind |-> "return", exc |-> "", value |-> v]
Raise(e) == [kind |-> "raise", exc |-> e, value |-> PyNone]
Pending == [kind |-> "pending", exc |-> "", value |-> PyNone]

\* log events
PrintEv(text) == [ev |-> "print", text |-> text]
GetEv(u, p, stream) == [ev |-> "GET", url |-> u, params |-> p, stream |-> stream]
RespEv(r) == [ev |-> "response", resp |-> r]

RequestLine(u) == <<"REQUEST: ", u>>
OpenMarker == <<"========== RESPONSE ==========">>
CloseMarker == <<"==============================">>
\* json.dumps(value, indent=4) and the printing of response.content
PrettyJson(v) == <<"json.dumps", v>>
RawBytes(b) == <<"bytes", b>>

(***************************************************************************)
(* query_api                                                               *)
(***************************************************************************)
\* requests.Response.raise_for_status as query_api uses it: HTTPError for
\* client errors (4xx) and server errors (5xx) only
RaisesOnlyServerErrors(status) == 500 <= status /\ status < 600
raise_for_status(status) == 400 <= status /\ status < 600

\* response.json(): decoding fails on bytes that are not JSON
JsonDecodes(body) == body.tag # "garbage"
json(body) ==
    IF body.tag = "null" THEN PyNone
    ELSE [type |-> "object", items |-> body.items,
          next_page_token |-> body.next_page_token]

\* lines 25-32: what the debug branch prints once response.json() succeeded
DebugLines(resp) ==
    <<PrintEv(OpenMarker),
      IF json(resp.body) # PyNone
      THEN PrintEv(PrettyJson(json(resp.body)))
      ELSE PrintEv(RawBytes(resp.body)),
      PrintEv(CloseMarker)>>

\* lines 22-34 after the request was sent: the lines printed and the result
query_api_result(resp, debug) ==
    IF resp = NoResponse
    THEN [prints |-> <<>>, result |-> Raise("ConnectionError")]
    ELSE IF raise_for_status(resp.status)
    THEN [prints |-> <<>>, result |-> Raise("HTTPError")]
    ELSE IF ~JsonDecodes(resp.body)
    THEN [prints |-> <<>>, result |-> Raise("JSONDecodeError")]
    ELSE [prints |-> IF debug THEN DebugLines(resp) ELSE <<>>,
          result |-> Return(json(resp.body))]

\* paginated_query_api has no try/except: an exception raised inside the
\* generator leaves reduce and the accumulated list is lost
PaginateReturnsPartial(exc, partial) == Return(partial)
PaginateOnError(exc, partial) == Raise(exc)

Call_query_api(u, p, d) ==
    /\ pc = "idle"
    /\ pc' = "query_api_send"
    /\ op' = "query_api"
    /\ caller' = "top"
    /\ url' = u
    /\ debug_requests' = d
    /\ heap' = <<p>>
    /\ params' = 1
    /\ base' = p
    /\ UNCHANGED <<max_pages, page_count, next_page_token, response, acc, fs,
                   target_path, overwrite, items, log, outcome>>

\* lines 19-22: print the request line when debugging, then send the GET
QuerySend ==
    /\ pc = "query_api_send"
    /\ pc' = "query_api_recv"
    /\ log' = log \o (IF debug_requests THEN <<PrintEv(RequestLine(url))>> ELSE <<>>)
                  \o <<GetEv(url, heap[params], FALSE)>>
    /\ UNCHANGED <<op, caller, url, debug_requests, heap, params, base, max_pages,
                   page_count, next_page_token, response, acc, fs, target_path,
                   overwrite, items, outcome>>

\* lines 22-34: the response arrives; query_api returns to its caller or raises
QueryRecv ==
    /\ pc = "query_api_recv"
    /\ \E resp \in NetworkOutcomes :
        LET r == query_api_result(resp, debug_requests) IN
        /\ log' = log \o <<RespEv(resp)>> \o r.prints
        /\ IF r.result.kind = "return" /\ caller = "iterator"
           THEN /\ pc' = "iter_yield"
                /\ response' = r.result.value
                /\ outcome' = outcome
           ELSE /\ pc' = "done"
                /\ response' = response
                /\ outcome' = IF caller = "iterator" /\ r.result.kind = "raise"
                              THEN PaginateOnError(r.result.exc, acc)
                              ELSE r.result
    /\ UNCHANGED <<op, caller, url, debug_requests, heap, params, base, max_pages,
                   page_count, next_page_token, acc, fs, target_path, overwrite, items>>

(***************************************************************************)
(* CircleCI.paginated_query_api_iterator and CircleCI.paginated_query_api  *)
(***************************************************************************)
\* line 79: assert 'page-token' not in params
AssertionRemoved(p) == TRUE
TokenKeyAbsent(p) == PAGE_TOKEN \notin DOMAIN p

\* line 83: while max_pages is None or page_count < max_pages
LoopOneMore(mp, count) == mp.isNone \/ count <= mp.n
LoopContinues(mp, count) == mp.isNone \/ count < mp.n

\* line 85: {**params, 'page-token': next_page_token}; the later entry wins
TokenFirst(p, token) ==
    [k \in DOMAIN p \cup {PAGE_TOKEN} |-> IF k \in DOMAIN p THEN p[k] ELSE token]
DictWithToken(p, token) ==
    [k \in DOMAIN p \cup {PAGE_TOKEN} |-> IF k = PAGE_TOKEN THEN token ELSE p[k]]

\* line 85: `params = {...}` binds the local name to a new dict object and
\* leaves the object the caller passed as it was
UpdateInPlace(h, ref, token) ==
    [heap |-> [h EXCEPT ![ref] = DictWithToken(h[ref], token)], ref |-> ref]
RebindParams(h, ref, token) ==
    [heap |-> Append(h, DictWithToken(h[ref], token)), ref |-> Len(h) + 1]

\* line 96: functools.reduce(operator.add, pages, []) adds each page on the right
AddOnLeft(sofar, page) == page \o sofar
ReduceStep(sofar, page) == sofar \o page

NumRequests == Len(SelectSeq(log, LAMBDA e : e.ev = "GET"))

\* lines 95-96: reduce creates the generator; nothing of its body has run yet
Call_paginated_query_api(u, p, mp, d) ==
    /\ pc = "idle"
    /\ pc' = "iter_start"
    /\ op' = "paginated_query_api"
    /\ caller' = "iterator"
    /\ url' = u
    /\ debug_requests' = d
    /\ heap' = <<p>>
    /\ params' = 1
    /\ base' = p
    /\ max_pages' = mp
    /\ acc' = <<>>
    /\ UNCHANGED <<page_count, next_page_token, response, fs, target_path,
                   overwrite, items, log, outcome>>

\* lines 79-82: the first next() runs the assertion and initialises the locals
IterStart ==
    /\ pc = "iter_start"
    /\ IF TokenKeyAbsent(heap[params])
       THEN /\ pc' = "iter_loop"
            /\ outcome' = outcome
       ELSE /\ pc' = "done"
            /\ outcome' = PaginateOnError("AssertionError", acc)
    /\ page_count' = 0
    /\ next_page_token' = None
    /\ UNCHANGED <<op, caller, url, debug_requests, heap, params, base, max_pages,
                   response, acc, fs, target_path, overwrite, items, log>>

\* lines 83-87: the loop test, the token merged into params, the call of
\* query_api; when the test fails the generator ends and reduce returns
IterLoop ==
    /\ pc = "iter_loop"
    /\ LoopContinues(max_pages, page_count) => NumRequests < MaxRequests
    /\ IF LoopContinues(max_pages, page_count)
       THEN /\ pc' = "query_api_send"
            /\ outcome' = outcome
            /\ IF next_page_token # None
               THEN LET b == RebindParams(heap, params, next_page_token) IN
                    /\ heap' = b.heap
                    /\ params' = b.ref
               ELSE UNCHANGED <<heap, params>>
       ELSE /\ pc' = "done"
            /\ outcome' = Return(acc)
            /\ UNCHANGED <<heap, params>>
    /\ UNCHANGED <<op, caller, url, debug_requests, base, max_pages, page_count,
                   next_page_token, response, acc, fs, target_path, overwrite,
                   items, log>>

\* lines 89-93: yield response['items'] (reduce adds it), read the next
\* token, count the page, leave the loop when there is no token
IterYield ==
    /\ pc = "iter_yield"
    /\ IF response = PyNone
       THEN /\ pc' = "done"
            /\ outcome' = PaginateOnError("TypeError", acc)
            /\ UNCHANGED <<acc, next_page_token, page_count>>
       ELSE /\ acc' = ReduceStep(acc, response.items)
            /\ next_page_token' = response.next_page_token
            /\ page_count' = page_count + 1
            /\ IF response.next_page_token = None
               THEN /\ pc' = "done"
                    /\ outcome' = Return(acc')
               ELSE /\ pc' = "iter_loop"
                    /\ outcome' = outcome
    /\ UNCHANGED <<op, caller, url, debug_requests, heap, params, base, max_pages,
                   response, fs, target_path, overwrite, items, log>>

(***************************************************************************)
(* download_file                                                           *)
(***************************************************************************)
Absent == [tag |-> "absent", items |-> <<>>, next_page_token |-> None]
OldContent == [tag |-> "old", items |-> <<>>, next_page_token |-> None]

\* line 38: not overwrite and target_path.exists()
IgnoresExisting(files, path, ow) == FALSE
RefusesOverwrite(files, path, ow) == ~ow /\ files[path] # Absent

\* lines 38-41: the check, then the streamed GET
Call_download_file(u, path, ow) ==
    /\ pc = "idle"
    /\ op' = "download_file"
    /\ url' = u
    /\ target_path' = path
    /\ overwrite' = ow
    /\ IF RefusesOverwrite(fs, path, ow)
       THEN /\ pc' = "done"
            /\ outcome' = Raise("FileAlreadyExists")
            /\ log' = log
       ELSE /\ pc' = "download_recv"
            /\ outcome' = outcome
            /\ log' = Append(log, GetEv(u, EmptyDict, TRUE))
    /\ UNCHANGED <<caller, debug_requests, heap, params, base, max_pages,
                   page_count, next_page_token, response, acc, fs, items>>

\* lines 41-43: the body of whatever response arrived is copied to the file;
\* the status is not looked at
DownloadRecv ==
    /\ pc = "download_recv"
    /\ pc' = "done"
    /\ \E resp \in NetworkOutcomes :
        /\ log' = Append(log, RespEv(resp))
        /\ IF resp = NoResponse
           THEN /\ outcome' = Raise("ConnectionError")
                /\ fs' = fs
           ELSE /\ outcome' = Return(PyNone)
                /\ fs' = [fs EXCEPT ![target_path] = resp.body]
    /\ UNCHANGED <<op, caller, url, debug_requests, heap, params, base, max_pages,
                   page_count, next_page_token, response, acc, target_path,
                   overwrite, items>>

(***************************************************************************)
(* CircleCI.latest_item                                                    *)
(***************************************************************************)
\* created_at values are strings; Python compares them character by character
CreatedAts == {<<1>>, <<1, 2>>, <<2>>, <<2, 1>>}
ItemIds == {"a", "b"}
ItemValues == [created_at : CreatedAts, id : ItemIds]

RECURSIVE StrLess(_, _)
StrLess(a, b) ==
    IF b = <<>> THEN FALSE
    ELSE IF a = <<>> THEN TRUE
    ELSE IF Head(a) # Head(b) THEN Head(a) < Head(b)
    ELSE StrLess(Tail(a), Tail(b))

\* sorted(items, key=created_at): stable, ascending
RECURSIVE InsertSorted(_, _)
InsertSorted(x, s) ==
    IF s = <<>> THEN <<x>>
    ELSE IF StrLess(x.created_at, Head(s).created_at) THEN <<x>> \o s
    ELSE <<Head(s)>> \o InsertSorted(x, Tail(s))

RECURSIVE sorted(_)
sorted(s) ==
    IF s = <<>> THEN <<>>
    ELSE InsertSorted(s[Len(s)], sorted(SubSeq(s, 1, Len(s) - 1)))

\* lines 116-117
TakesLast(s) ==
    IF Len(sorted(s)) > 0 THEN sorted(s)[Len(sorted(s))] ELSE PyNone
latest_item(s) ==
    IF Len(sorted(s)) > 0 THEN sorted(s)[1] ELSE PyNone

Call_latest_item(s) ==
    /\ pc = "idle"
    /\ pc' = "done"
    /\ op' = "latest_item"
    /\ items' = s
    /\ outcome' = Return(latest_item(s))
    /\ UNCHANGED <<caller, url, debug_requests, heap, params, base, max_pages,
                   page_count, next_page_token, response, acc, fs, target_path,
                   overwrite, log>>

(***************************************************************************)
(* Specifications                                                          *)
(***************************************************************************)
InitCall ==
    /\ pc = "idle"
    /\ op = "none"
    /\ caller = "top"
    /\ url = "u1"
    /\ debug_requests = FALSE
    /\ heap = <<>>
    /\ params = 0
    /\ base = EmptyDict
    /\ max_pages = NoLimit
    /\ page_count = 0
    /\ next_page_token = None
    /\ response = PyNone
    /\ acc = <<>>
    /\ target_path = "p1"
    /\ overwrite = FALSE
    /\ items = <<>>
    /\ log = <<>>
    /\ outcome = Pending

Init ==
    /\ InitCall
    /\ fs = [p \in Paths |-> Absent]

InitDownload ==
    /\ InitCall
    /\ fs \in [Paths -> {Absent, OldContent}]

RECURSIVE SeqsUpTo(_, _)
SeqsUpTo(S, n) ==
    IF n = 0 THEN {<<>>}
    ELSE SeqsUpTo(S, n - 1)
         \cup {Append(s, x) : s \in {t \in SeqsUpTo(S, n - 1) : Len(t) = n - 1}, x \in S}

\* a run of paginated_query_api
Next ==
    \/ \E u \in Urls, p \in ParamsArgs, mp \in MaxPagesArgs, d \in BOOLEAN :
           Call_paginated_query_api(u, p, mp, d)
    \/ IterStart
    \/ IterLoop
    \/ QuerySend
    \/ QueryRecv
    \/ IterYield

Spec == Init /\ [][Next]_vars

\* a direct call of query_api
NextQuery ==
    \/ \E u \in Urls, p \in ParamsArgs, d \in BOOLEAN : Call_query_api(u, p, d)
    \/ QuerySend
    \/ QueryRecv

SpecQuery == Init /\ [][NextQuery]_vars

\* a call of download_file
NextDownload ==
    \/ \E u \in Urls, path \in Paths, ow \in BOOLEAN : Call_download_file(u, path, ow)
    \/ DownloadRecv

SpecDownload == InitDownload /\ [][NextDownload]_vars

\* a call of latest_item
NextLatest ==
    \E s \in SeqsUpTo(ItemValues, MaxListLen) : Call_latest_item(s)

SpecLatest == Init /\ [][NextLatest]_vars

(***************************************************************************)
(* Properties                                                              *)
(***************************************************************************)
Requests == SelectSeq(log, LAMBDA e : e.ev = "GET")
Served == SelectSeq(log, LAMBDA e : e.ev = "response")
Network == SelectSeq(log, LAMBDA e : e.ev \in {"GET", "response"})

\* a page: a 200 response whose body is a JSON object
IsPage(r) == r.status = 200 /\ r.body.tag = "object"
TokenOf(j) == Served[j].resp.body.next_page_token
ItemsOf(j) == Served[j].resp.body.items

\* the items of the first n responses, in page order
RECURSIVE FirstPagesItems(_)
FirstPagesItems(n) ==
    IF n = 0 THEN <<>> ELSE FirstPagesItems(n - 1) \o ItemsOf(n)

Returned(v) == outcome.kind = "return" /\ outcome.value = v
Raised(e) == outcome.kind = "raise" /\ outcome.exc = e

\* C1: download_file with overwrite false on a path that exists raises
\* FileAlreadyExists, sends no GET request and leaves the filesystem as it
\* was: no step of such a call changes the filesystem or adds a request.
C1_RefusesBeforeAnyRequest ==
    [][(op' = "download_file" /\ ~overwrite' /\ fs[target_path'] # Absent)
          => /\ fs' = fs
             /\ NumRequests' = 0
             /\ pc' = "done"
             /\ outcome'.kind = "raise"
             /\ outcome'.exc = "FileAlreadyExists"]_vars

C1_Witness ==
    /\ op = "download_file"
    /\ pc = "done"
    /\ ~overwrite
    /\ fs[target_path] = OldContent
    /\ Raised("FileAlreadyExists")
    /\ log = <<>>

\* C2: when the server answers with k pages, all but the last with a token,
\* and max_pages is None or at least k, exactly k requests are made and the
\* call returns the k pages' items concatenated in page order.
C2_AllPagesInOrder ==
    LET k == Len(Served) IN
    (/\ op = "paginated_query_api"
     /\ k >= 1
     /\ \A j \in 1..k : IsPage(Served[j].resp) /\ (TokenOf(j) = None <=> j = k)
     /\ (max_pages.isNone \/ max_pages.n >= k))
    => /\ NumRequests = k
       /\ pc \in {"iter_yield", "done"}
       /\ pc = "done" => Returned(FirstPagesItems(k))

C2_Witness ==
    /\ op = "paginated_query_api"
    /\ pc = "done"
    /\ max_pages = Limit(DEFAULT_MAX_PAGES)
    /\ Len(Served) = 3
    /\ \A j \in 1..3 : IsPage(Served[j].resp)
    /\ ItemsOf(1) = <<2, 1>> /\ TokenOf(1) = "A"
    /\ ItemsOf(2) = <<1>> /\ TokenOf(2) = "B"
    /\ ItemsOf(3) = <<1, 2>> /\ TokenOf(3) = None
    /\ Returned(<<2, 1, 1, 1, 2>>)

\* C3: with a finite max_pages n (and params that pass the precondition) no
\* more than n requests are ever made; when the first n responses are pages
\* that all carry a token, the call ends after exactly n requests, without
\* an error, returning the first n pages' items concatenated.
C3_NeverMoreThanMaxPages ==
    (op = "paginated_query_api" /\ ~max_pages.isNone)
    => /\ NumRequests <= max_pages.n
       /\ (/\ PAGE_TOKEN \notin DOMAIN base
           /\ pc = "done"
           /\ Len(Served) = max_pages.n
           /\ \A j \in 1..Len(Served) : IsPage(Served[j].resp) /\ TokenOf(j) # None)
          => /\ NumRequests = max_pages.n
             /\ Returned(FirstPagesItems(max_pages.n))

C3_Witness ==
    /\ op = "paginated_query_api"
    /\ pc = "done"
    /\ max_pages = Limit(2)
    /\ Len(Served) = 2
    /\ IsPage(Served[1].resp) /\ ItemsOf(1) = <<1, 2>> /\ TokenOf(1) = "A"
    /\ IsPage(Served[2].resp) /\ ItemsOf(2) = <<2, 1>> /\ TokenOf(2) = "B"
    /\ NumRequests = 2
    /\ Returned(<<1, 2, 2, 1>>)

\* C4 as stated: every response whose status is not 2xx makes query_api
\* raise HTTPError.
C4_EveryNon2xxRaises ==
    (/\ op = "query_api"
     /\ pc = "done"
     /\ Len(Served) = 1
     /\ Served[1].resp # NoResponse
     /\ ~(200 <= Served[1].resp.status /\ Served[1].resp.status <= 299))
    => Raised("HTTPError")

\* C4 amended: every response whose status is 4xx or 5xx makes query_api
\* raise HTTPError, so that no value is returned.
C4_ClientAndServerErrorsRaise ==
    (/\ op = "query_api"
     /\ Len(Served) = 1
     /\ 400 <= Served[1].resp.status /\ Served[1].resp.status <= 599)
    => /\ pc = "done"
       /\ Raised("HTTPError")

C4_Witness ==
    /\ op = "query_api"
    /\ pc = "done"
    /\ Len(Served) = 1
    /\ Served[1].resp.status = 404
    /\ Served[1].resp.body.tag = "object"
    /\ Raised("HTTPError")

\* C5: params that already hold the key 'page-token' make the pagination
\* fail with AssertionError, and no request is ever sent.
C5_TokenKeyInParamsFailsFast ==
    (op = "paginated_query_api" /\ PAGE_TOKEN \in DOMAIN base)
    => /\ NumRequests = 0
       /\ pc \in {"iter_start", "done"}
       /\ pc = "done" => Raised("AssertionError")

C5_Witness ==
    /\ op = "paginated_query_api"
    /\ pc = "done"
    /\ PAGE_TOKEN \in DOMAIN base
    /\ "branch" \in DOMAIN base
    /\ Raised("AssertionError")
    /\ log = <<>>

\* C6: the dict object the caller passed keeps, at every moment of the
\* pagination, the keys and values it had when the call was made.
C6_CallerParamsNeverMutated ==
    op = "paginated_query_api" => heap[1] = base

C6_Witness ==
    /\ op = "paginated_query_api"
    /\ pc = "done"
    /\ NumRequests = 3
    /\ base = ("branch" :> "develop")
    /\ Requests[3].params = ("branch" :> "develop") @@ (PAGE_TOKEN :> "B")
    /\ heap[1] = base
    /\ outcome.kind = "return"

\* C7: latest_item returns None exactly when the list is empty, and
\* otherwise an element of the list that no element precedes in created_at.
C7_LatestItemIsEarliest ==
    (op = "latest_item" /\ pc = "done")
    => /\ outcome.kind = "return"
       /\ outcome.value = PyNone <=> items = <<>>
       /\ items # <<>> =>
            \E i \in 1..Len(items) :
                /\ outcome.value = items[i]
                /\ \A j \in 1..Len(items) :
                       ~StrLess(items[j].created_at, items[i].created_at)

C7_Witness ==
    /\ op = "latest_item"
    /\ pc = "done"
    /\ Len(items) = 3
    /\ items[1].created_at = <<2>>
    /\ items[2].created_at = <<1, 2>>
    /\ items[3].created_at = <<1>>
    /\ outcome.value = items[3]

\* C8: a debugging query_api that gets a 200 response prints the request
\* line before the GET, and after the response the opening marker, then the
\* pretty-printed JSON when the body decodes as JSON and the raw bytes when
\* it does not, then the closing marker.
C8_DebugPrintsJsonOrRawBytes ==
    (/\ op = "query_api"
     /\ debug_requests
     /\ pc = "done"
     /\ Len(Served) = 1
     /\ Served[1].resp.status = 200)
    => LET body == Served[1].resp.body IN
       log = <<PrintEv(RequestLine(url)),
               GetEv(url, base, FALSE),
               RespEv(Served[1].resp),
               PrintEv(OpenMarker),
               IF body.tag # "garbage"
               THEN PrintEv(<<"json.dumps", json(body)>>)
               ELSE PrintEv(<<"bytes", body>>),
               PrintEv(CloseMarker)>>

\* C9: the first request carries the base params without 'page-token'; each
\* later request follows the previous response and carries exactly the base
\* params plus 'page-token' set to that response's next_page_token.
C9_EachRequestUsesLatestToken ==
    op = "paginated_query_api"
    => /\ \A n \in 1..Len(Network) :
              Network[n].ev = (IF n % 2 = 1 THEN "GET" ELSE "response")
       /\ Len(Requests) >= 1 =>
              /\ Requests[1].params = base
              /\ PAGE_TOKEN \notin DOMAIN Requests[1].params
       /\ \A i \in 1..(Len(Requests) - 1) :
              LET p == Requests[i + 1].params IN
              /\ Len(Served) >= i
              /\ DOMAIN p = DOMAIN base \cup {PAGE_TOKEN}
              /\ p[PAGE_TOKEN] = TokenOf(i)
              /\ \A k \in DOMAIN base : p[k] = base[k]

C9_Witness ==
    /\ op = "paginated_query_api"
    /\ base = ("branch" :> "develop")
    /\ Len(Requests) = 3
    /\ Len(Served) = 2
    /\ TokenOf(1) = "A"
    /\ TokenOf(2) = "B"
    /\ Requests[2].params[PAGE_TOKEN] = "A"
    /\ Requests[3].params[PAGE_TOKEN] = "B"

\* C10: a failed page fetch (no response, a 4xx or 5xx status, a body that
\* is not JSON) ends paginated_query_api with that error: the failed request
\* is the last one, and no list is returned.
C10_Failed(r) == r = NoResponse \/ r.status >= 400 \/ r.body.tag = "garbage"
C10_Error(r) ==
    IF r = NoResponse THEN "ConnectionError"
    ELSE IF r.status >= 400 THEN "HTTPError"
    ELSE "JSONDecodeError"

C10_PageFailureFailsWholeCall ==
    op = "paginated_query_api"
    => \A j \in 1..Len(Served) :
           C10_Failed(Served[j].resp)
           => /\ j = Len(Served)
              /\ NumRequests = j
              /\ pc = "done"
              /\ Raised(C10_Error(Served[j].resp))

C10_Witness ==
    /\ op = "paginated_query_api"
    /\ pc = "done"
    /\ Len(Served) = 3
    /\ ItemsOf(1) = <<1, 2>>
    /\ ItemsOf(2) = <<2, 1>>
    /\ Served[3].resp.status = 503
    /\ NumRequests = 3
    /\ Raised("HTTPError")

====
